---- MODULE Spec2Model ----
(***************************************************************************)
(* Model of app.py, the Streamlit expense tracker: one script run loads    *)
(* the worksheet through the 60 s data cache, resolves the column roles,   *)
(* parses amounts and dates, normalises the transaction type and computes  *)
(* the summary metrics and the grouped aggregates.                         *)
(*                                                                         *)
(* Text is a sequence of one-character strings, so that lower-casing,      *)
(* trimming, substring search and parsing are computed, not assumed.       *)
(* A cell is a record [k, n, s]: k is the kind of value ("text", "num",    *)
(* "nan", "ts", "nat", "date"), n its number, s its text.                  *)
(***************************************************************************)
EXTENDS Integers, Sequences, FiniteSets, TLC

VARIABLES
    SHEET_ID,       \* the sheet id typed in the sidebar
    sheet,          \* the worksheet as it is in the remote spreadsheet now
    cache,          \* st.cache_data's entry for load_sheet_as_df
    age,            \* seconds since the entry was stored
    pc,             \* the statement the script run is at
    df,             \* the loaded frame
    roles,          \* date_col, amount_col, type_col, bank_col, message_col
    work,           \* the cleaned frame
    metrics,        \* total_debit, total_credit, txn_count, last_update
    daily,          \* debit sum by Date
    monthly,        \* sum by (Month, Type)
    weekday,        \* debit mean for Monday..Sunday
    bank,           \* sum by (bank, Type)
    top_merchants,  \* sum by merchant
    rendered        \* the cleaned table and histogram data on the page

vars == <<SHEET_ID, sheet, cache, age, pc, df, roles, work,
          metrics, daily, monthly, weekday, bank, top_merchants, rendered>>

(* ------------------------------ bounds -------------------------------- *)

\* Largest number of records in a worksheet of the model.
MaxRows == 2
\* Largest number of header names drawn for the column-resolution runs.
MaxCols == 2
\* Seconds that pass in one Tick of the session clock.
TickStep == 30
\* The session clock stops being advanced past this age of the cache entry.
MaxAge == 90

(* ------------------------------- text --------------------------------- *)

Upper == <<"A","B","C","D","E","F","G","H","I","J","K","L","M",
           "N","O","P","Q","R","S","T","U","V","W","X","Y","Z">>
Lower == <<"a","b","c","d","e","f","g","h","i","j","k","l","m",
           "n","o","p","q","r","s","t","u","v","w","x","y","z">>
Digits == <<"0","1","2","3","4","5","6","7","8","9">>

IsUpper(c) == \E i \in 1..26 : Upper[i] = c
IsLower(c) == \E i \in 1..26 : Lower[i] = c
IsDigit(c) == \E i \in 1..10 : Digits[i] = c
DigitVal(c) == (CHOOSE i \in 1..10 : Digits[i] = c) - 1
IsSpace(c) == c \in {" ", "\t", "\n"}

\* str.lower(), one character
LowerChar(c) == IF IsUpper(c) THEN Lower[CHOOSE i \in 1..26 : Upper[i] = c] ELSE c
\* str.lower()
str_lower(s) == [i \in 1..Len(s) |-> LowerChar(s[i])]

\* str.strip(): leading and trailing whitespace removed
str_strip(s) ==
    LET keep == {i \in 1..Len(s) : ~IsSpace(s[i])}
    IN IF keep = {} THEN <<>>
       ELSE LET lo == CHOOSE i \in keep : \A j \in keep : i <= j
                hi == CHOOSE i \in keep : \A j \in keep : j <= i
            IN SubSeq(s, lo, hi)

\* whether text s holds t at position i
MatchAt(s, t, i) ==
    /\ i >= 1
    /\ i + Len(t) - 1 <= Len(s)
    /\ \A j \in 1..Len(t) : s[i + j - 1] = t[j]

\* Python's `t in s`
Contains(s, t) == \E i \in 1..(Len(s) + 1) : MatchAt(s, t, i)

\* decimal value of a text of digits
RECURSIVE DigitsVal(_)
DigitsVal(s) ==
    IF s = <<>> THEN 0 ELSE 10 * DigitsVal(SubSeq(s, 1, Len(s) - 1)) + DigitVal(s[Len(s)])

AllDigits(s) == Len(s) >= 1 /\ \A i \in 1..Len(s) : IsDigit(s[i])

\* str(n) for an integer
RECURSIVE NatStr(_)
NatStr(n) == IF n < 10 THEN <<Digits[n + 1]>> ELSE NatStr(n \div 10) \o <<Digits[(n % 10) + 1]>>
IntStr(n) == IF n < 0 THEN <<"-">> \o NatStr(0 - n) ELSE NatStr(n)
\* n written with at least w digits, zero padded
RECURSIVE Pad(_, _)
Pad(s, w) == IF Len(s) >= w THEN s ELSE Pad(<<"0">> \o s, w)

(* ------------------------------- cells -------------------------------- *)

Text(s) == [k |-> "text", n |-> 0, s |-> s]
Num(n)  == [k |-> "num", n |-> n, s |-> <<>>]
NaN     == [k |-> "nan", n |-> 0, s |-> <<>>]
NaT     == [k |-> "nat", n |-> 0, s |-> <<>>]
\* a timestamp at midnight or within the first/last second of a day: its calendar day
Ts(y, m, d)  == [k |-> "ts", n |-> y * 10000 + m * 100 + d, s |-> <<>>]
DateOf(ts)   == [k |-> "date", n |-> ts.n, s |-> <<>>]

IsNull(c) == c.k \in {"nan", "nat"}
IsNum(c)  == c.k = "num"

\* astype(str) of one cell
astype_str(c) ==
    CASE c.k = "text" -> c.s
      [] c.k = "num"  -> IntStr(c.n)
      [] c.k = "nan"  -> <<"n","a","n">>
      [] OTHER        -> <<"N","a","T">>

(* ------------------------------ tables -------------------------------- *)

\* A DataFrame: the column labels in order and the rows, each a sequence of
\* cells aligned with the labels.
EmptyFrame == [columns |-> <<>>, rows |-> <<>>]

\* df.empty
IsEmpty(t) == Len(t.columns) = 0 \/ Len(t.rows) = 0

HasColumn(t, name) == \E i \in 1..Len(t.columns) : t.columns[i] = name
ColIndex(t, name) == CHOOSE i \in 1..Len(t.columns) : t.columns[i] = name
\* work[name]: the column as a sequence of cells
Column(t, name) == [r \in 1..Len(t.rows) |-> t.rows[r][ColIndex(t, name)]]

\* work[name] = values: the column is overwritten in place when the label
\* exists and appended as the last column otherwise; the rows are untouched.
SetColumn(t, name, values) ==
    IF HasColumn(t, name)
    THEN [t EXCEPT !.rows = [r \in 1..Len(t.rows) |->
                                [t.rows[r] EXCEPT ![ColIndex(t, name)] = values[r]]]]
    ELSE [columns |-> Append(t.columns, name),
          rows |-> [r \in 1..Len(t.rows) |-> Append(t.rows[r], values[r])]]

(* ---------------------------- conversions ----------------------------- *)

\* int(s) for an optionally signed text of digits; NaN for any other text
\* (the amount texts of the model carry no whitespace, decimal point or exponent)
ParseNumber(s) ==
    LET t == s
    IN IF AllDigits(t) THEN Num(DigitsVal(t))
       ELSE IF Len(t) >= 2 /\ t[1] = "-" /\ AllDigits(Tail(t)) THEN Num(0 - DigitsVal(Tail(t)))
       ELSE IF Len(t) >= 2 /\ t[1] = "+" /\ AllDigits(Tail(t)) THEN Num(DigitsVal(Tail(t)))
       ELSE NaN

\* pd.to_numeric(..., errors="coerce") on one cell
to_numeric(c) ==
    CASE c.k = "num"  -> c
      [] c.k = "text" -> ParseNumber(c.s)
      [] OTHER        -> NaN

IsLeap(y) == (y % 4 = 0 /\ y % 100 # 0) \/ y % 400 = 0
DaysInMonth(y, m) ==
    IF m = 2 THEN (IF IsLeap(y) THEN 29 ELSE 28)
    ELSE IF m \in {4, 6, 9, 11} THEN 30 ELSE 31

\* a text of the form YYYY-MM-DD naming a day of the calendar; NaT otherwise
\* (the other date texts of the model are ones no date format reads)
ParseDate(s) ==
    LET t == s
    IN IF /\ Len(t) = 10
          /\ t[5] = "-" /\ t[8] = "-"
          /\ AllDigits(SubSeq(t, 1, 4)) /\ AllDigits(SubSeq(t, 6, 7))
          /\ AllDigits(SubSeq(t, 9, 10))
       THEN LET y == DigitsVal(SubSeq(t, 1, 4))
                m == DigitsVal(SubSeq(t, 6, 7))
                d == DigitsVal(SubSeq(t, 9, 10))
            IN IF y >= 1 /\ m \in 1..12 /\ d >= 1 /\ d <= DaysInMonth(y, m)
               THEN Ts(y, m, d) ELSE NaT
       ELSE NaT

\* pd.to_datetime(..., errors="coerce") on one cell. A number is read as
\* nanoseconds since the epoch: the small numbers of the model fall in the
\* first instant of 1970-01-01 or the last of 1969-12-31.
to_datetime(c) ==
    CASE c.k = "ts"   -> c
      [] c.k = "text" -> ParseDate(c.s)
      [] c.k = "num"  -> IF c.n >= 0 THEN Ts(1970, 1, 1) ELSE Ts(1969, 12, 31)
      [] OTHER        -> NaT

Year(ts)  == ts.n \div 10000
Mon(ts)   == (ts.n \div 100) % 100
Day(ts)   == ts.n % 100

\* .dt.date: the calendar date, NaT where the timestamp is missing
dt_date(c) == IF c.k = "ts" THEN DateOf(c) ELSE NaT

\* .dt.to_period("M").astype(str): "YYYY-MM"; the missing period is
\* formatted as the three letters NaT, a string like any other.
dt_month_str(c) ==
    IF c.k = "ts"
    THEN Text(Pad(NatStr(Year(c)), 4) \o <<"-">> \o Pad(NatStr(Mon(c)), 2))
    ELSE Text(<<"N","a","T">>)

DayNames == << <<"S","u","n","d","a","y">>, <<"M","o","n","d","a","y">>,
               <<"T","u","e","s","d","a","y">>, <<"W","e","d","n","e","s","d","a","y">>,
               <<"T","h","u","r","s","d","a","y">>, <<"F","r","i","d","a","y">>,
               <<"S","a","t","u","r","d","a","y">> >>
MonthOffset == <<0, 3, 2, 5, 0, 3, 5, 1, 4, 6, 2, 4>>
\* day of the week, 0 for Sunday
DayOfWeek(y, m, d) ==
    LET yy == IF m < 3 THEN y - 1 ELSE y
    IN (yy + (yy \div 4) - (yy \div 100) + (yy \div 400) + MonthOffset[m] + d) % 7

\* .dt.day_name(): NaN where the timestamp is missing
dt_day_name(c) ==
    IF c.k = "ts" THEN Text(DayNames[DayOfWeek(Year(c), Mon(c), Day(c)) + 1]) ELSE NaN

\* " ".join of the texts
RECURSIVE str_cat(_)
str_cat(ss) ==
    IF ss = <<>> THEN <<>>
    ELSE IF Len(ss) = 1 THEN ss[1]
    ELSE ss[1] \o <<" ">> \o str_cat(Tail(ss))

\* s.replace(",", "")
RemoveCommas(s) == SelectSeq(s, LAMBDA c : c # ",")

\* length of the longest run of digits of s that starts at position i
RECURSIVE DigitRun(_, _)
DigitRun(s, i) == IF i <= Len(s) /\ IsDigit(s[i]) THEN 1 + DigitRun(s, i + 1) ELSE 0

\* extract_num: the first match of [-]?\d+[\d,]*(\.\d+)? in the text without
\* its commas, as a number; None (a missing amount) when nothing matches.
\* The texts of the model hold no decimal point, so the match is an integer.
extract_num(x) ==
    LET s == RemoveCommas(x)
        starts == {i \in 1..Len(s) :
                     \/ IsDigit(s[i])
                     \/ (s[i] = "-" /\ i < Len(s) /\ IsDigit(s[i + 1]))}
    IN IF starts = {} THEN NaN
       ELSE LET i == CHOOSE a \in starts : \A b \in starts : a <= b
            IN IF s[i] = "-"
               THEN Num(0 - DigitsVal(SubSeq(s, i + 1, i + DigitRun(s, i + 1))))
               ELSE Num(DigitsVal(SubSeq(s, i, i + DigitRun(s, i) - 1)))

\* [A-Za-z0-9 &\.\-\/]
IsMerchantChar(c) == IsUpper(c) \/ IsLower(c) \/ IsDigit(c) \/ c \in {" ", "&", ".", "-", "/"}
RECURSIVE MerchantRun(_, _)
MerchantRun(s, i) ==
    IF i <= Len(s) /\ IsMerchantChar(s[i]) THEN 1 + MerchantRun(s, i + 1) ELSE 0
RECURSIVE SpaceRun(_, _)
SpaceRun(s, i) == IF i <= Len(s) /\ IsSpace(s[i]) THEN 1 + SpaceRun(s, i + 1) ELSE 0

\* shortest and longest capture of the merchant pattern
MinMerchantLen == 3
MaxMerchantLen == 60
MerchantKeywords == << <<"T","o">>, <<"t","o">>, <<"a","t">>, <<"@">> >>

Min(a, b) == IF a < b THEN a ELSE b

\* The capture of (?:To|to|at|@)\s+([A-Za-z0-9 &\.\-\/]{3,60}) tried at
\* position i with keyword kw: \s+ is greedy and gives whitespace back to the
\* character class (which holds the space) until at least 3 characters follow.
\* <<>> when the pattern does not match there.
MerchantAt(s, kw, i) ==
    IF ~MatchAt(s, kw, i) THEN <<>>
    ELSE LET p == i + Len(kw)
             ws == {w \in 1..SpaceRun(s, p) : MerchantRun(s, p + w) >= MinMerchantLen}
         IN IF ws = {} THEN <<>>
            ELSE LET w == CHOOSE a \in ws : \A b \in ws : b <= a
                 IN SubSeq(s, p + w, p + w + Min(MerchantRun(s, p + w), MaxMerchantLen) - 1)

\* .str.extract(pattern): the capture of the leftmost match, the keywords
\* tried in order at each position; NaN when the pattern matches nowhere.
str_extract_merchant(s) ==
    LET hits == {i \in 1..Len(s) : \E j \in 1..4 : MerchantAt(s, MerchantKeywords[j], i) # <<>>}
    IN IF hits = {} THEN NaN
       ELSE LET i == CHOOSE a \in hits : \A b \in hits : a <= b
                j == CHOOSE a \in 1..4 :
                        /\ MerchantAt(s, MerchantKeywords[a], i) # <<>>
                        /\ \A b \in 1..(a - 1) : MerchantAt(s, MerchantKeywords[b], i) = <<>>
            IN Text(MerchantAt(s, MerchantKeywords[j], i))

(* ------------------------ literals of the code ------------------------ *)

kw_datetime == <<"d","a","t","e","t","i","m","e">>
kw_date == <<"d","a","t","e">>
kw_amount == <<"a","m","o","u","n","t">>
kw_amt == <<"a","m","t">>
kw_type == <<"t","y","p","e">>
kw_bank == <<"b","a","n","k">>
kw_message == <<"m","e","s","s","a","g","e">>
kw_msg == <<"m","s","g">>
kw_suspicious == <<"s","u","s","p","i","c","i","o","u","s">>
col_Amount == <<"A","m","o","u","n","t">>
col_DateTime == <<"D","a","t","e","T","i","m","e">>
col_Date == <<"D","a","t","e">>
col_Month == <<"M","o","n","t","h">>
col_Weekday == <<"W","e","e","k","d","a","y">>
col_Type == <<"T","y","p","e">>
col_merchant == <<"m","e","r","c","h","a","n","t">>
s_debit == <<"d","e","b","i","t">>
s_credit == <<"c","r","e","d","i","t">>
s_unknown == <<"u","n","k","n","o","w","n">>
s_deb == <<"d","e","b">>
s_withdraw == <<"w","i","t","h","d","r","a","w">>
s_paid == <<"p","a","i","d">>
s_cred == <<"c","r","e","d">>
s_credited == <<"c","r","e","d","i","t","e","d">>

\* the role synonyms, in the order the code tries them
DateSynonyms == <<kw_datetime, kw_date>>
AmountSynonyms == <<kw_amount, kw_amt>>
TypeSynonyms == <<kw_type>>
BankSynonyms == <<kw_bank>>
MessageSynonyms == <<kw_message, kw_msg>>
SuspiciousSynonyms == <<kw_suspicious>>

(* ----------------------- worksheets of the model ---------------------- *)

\* worksheet A: headers Date, Amount, Type
HeadersA == << <<"D","a","t","e">>, <<"A","m","o","u","n","t">>, <<"T","y","p","e">> >>
RowsA == {
    \* '2024-01-01' | '-50' | 'Debit'
    << Text(<<"2","0","2","4","-","0","1","-","0","1">>), Text(<<"-","5","0">>), Text(<<"D","e","b","i","t">>) >>,
    \* '2024-01-01' | '100' | 'Credit'
    << Text(<<"2","0","2","4","-","0","1","-","0","1">>), Text(<<"1","0","0">>), Text(<<"C","r","e","d","i","t">>) >>,
    \* '2024-01-02' | 'N/A' | 'Debit'
    << Text(<<"2","0","2","4","-","0","1","-","0","2">>), Text(<<"N","/","A">>), Text(<<"D","e","b","i","t">>) >>,
    \* 'N/A' | '30' | ' DEBIT '
    << Text(<<"N","/","A">>), Text(<<"3","0">>), Text(<<" ","D","E","B","I","T"," ">>) >>,
    \* '2024-01-02' | '20' | 'Debited'
    << Text(<<"2","0","2","4","-","0","1","-","0","2">>), Text(<<"2","0">>), Text(<<"D","e","b","i","t","e","d">>) >>
  }

\* worksheet B: headers datetime, AMT, Type, Message, Bank
HeadersB == << <<"d","a","t","e","t","i","m","e">>, <<"A","M","T">>, <<"T","y","p","e">>, <<"M","e","s","s","a","g","e">>, <<"B","a","n","k">> >>
RowsB == {
    \* '2024-01-03' | 100 | 'Debit' | 'credited by Acme' | 'HDFC'
    << Text(<<"2","0","2","4","-","0","1","-","0","3">>), Num(100), Text(<<"D","e","b","i","t">>), Text(<<"c","r","e","d","i","t","e","d"," ","b","y"," ","A","c","m","e">>), Text(<<"H","D","F","C">>) >>,
    \* '2024-01-03' | 40 | 'CR-credit card' | 'paid to Bob' | 'SBI'
    << Text(<<"2","0","2","4","-","0","1","-","0","3">>), Num(40), Text(<<"C","R","-","c","r","e","d","i","t"," ","c","a","r","d">>), Text(<<"p","a","i","d"," ","t","o"," ","B","o","b">>), Text(<<"S","B","I">>) >>,
    \* '' | -5 | 'debit\t' | 'hello' | 'HDFC'
    << Text(<<>>), Num(-5), Text(<<"d","e","b","i","t","\t">>), Text(<<"h","e","l","l","o">>), Text(<<"H","D","F","C">>) >>,
    \* '2024-02-10' | '' | 'transfer' | 'sent @ Cafe 9' | ''
    << Text(<<"2","0","2","4","-","0","2","-","1","0">>), Text(<<>>), Text(<<"t","r","a","n","s","f","e","r">>), Text(<<"s","e","n","t"," ","@"," ","C","a","f","e"," ","9">>), Text(<<>>) >>
  }

\* worksheet C: headers date, amt, msg
HeadersC == << <<"d","a","t","e">>, <<"a","m","t">>, <<"m","s","g">> >>
RowsC == {
    \* '2024-01-01' | -20 | 'Paid to Acme Corp for supplies'
    << Text(<<"2","0","2","4","-","0","1","-","0","1">>), Num(-20), Text(<<"P","a","i","d"," ","t","o"," ","A","c","m","e"," ","C","o","r","p"," ","f","o","r"," ","s","u","p","p","l","i","e","s">>) >>,
    \* '2024-01-01' | -20 | 'hello'
    << Text(<<"2","0","2","4","-","0","1","-","0","1">>), Num(-20), Text(<<"h","e","l","l","o">>) >>,
    \* '2024-01-05' | 30 | 'hello'
    << Text(<<"2","0","2","4","-","0","1","-","0","5">>), Num(30), Text(<<"h","e","l","l","o">>) >>,
    \* 'n/a' | 'N/A' | 'amount credited'
    << Text(<<"n","/","a">>), Text(<<"N","/","A">>), Text(<<"a","m","o","u","n","t"," ","c","r","e","d","i","t","e","d">>) >>,
    \* '2024-01-05' | 0 | 'Withdrawn at ATM'
    << Text(<<"2","0","2","4","-","0","1","-","0","5">>), Num(0), Text(<<"W","i","t","h","d","r","a","w","n"," ","a","t"," ","A","T","M">>) >>
  }

\* worksheet D: headers When, Value
HeadersD == << <<"W","h","e","n">>, <<"V","a","l","u","e">> >>
RowsD == {
    \* '2024-01-01' | -20
    << Text(<<"2","0","2","4","-","0","1","-","0","1">>), Num(-20) >>,
    \* 'x' | 30
    << Text(<<"x">>), Num(30) >>,
    \* '2024-01-06' | 0
    << Text(<<"2","0","2","4","-","0","1","-","0","6">>), Num(0) >>
  }

\* worksheet E: headers Note
HeadersE == << <<"N","o","t","e">> >>
RowsE == {
    \* 'spent 1,045 at Cafe Rio'
    << Text(<<"s","p","e","n","t"," ","1",",","0","4","5"," ","a","t"," ","C","a","f","e"," ","R","i","o">>) >>,
    \* 'nothing here'
    << Text(<<"n","o","t","h","i","n","g"," ","h","e","r","e">>) >>,
    \* 'refund -7 to you'
    << Text(<<"r","e","f","u","n","d"," ","-","7"," ","t","o"," ","y","o","u">>) >>
  }

\* header names for the column-resolution runs: synonyms in several letter
\* cases, two spellings of one name, a near miss, a padded name, the empty name
NamePool == {
    <<"D","a","t","e","T","i","m","e">>,    \* 'DateTime'
    <<"D","a","t","e">>,    \* 'Date'
    <<"D","A","T","E">>,    \* 'DATE'
    <<"A","m","o","u","n","t">>,    \* 'Amount'
    <<"a","m","t">>,    \* 'amt'
    <<"T","Y","P","E">>,    \* 'TYPE'
    <<"B","a","n","k">>,    \* 'Bank'
    <<"m","e","s","s","a","g","e">>,    \* 'message'
    <<"M","S","G">>,    \* 'MSG'
    <<"N","o","t","e","s">>,    \* 'Notes'
    <<" ","d","a","t","e">>,    \* ' date'
    <<>>    \* ''
  }


Tables(headers, rowset) ==
    {[columns |-> headers, rows |-> rs] :
        rs \in UNION {[1..n -> rowset] : n \in 1..MaxRows}}

\* one blank record under the given headers
BlankTable(headers) ==
    [columns |-> headers, rows |-> << [i \in 1..Len(headers) |-> Text(<<>>)] >>]

\* sequences of 1..MaxCols different names of the pool
HeaderLists ==
    {h \in UNION {[1..n -> NamePool] : n \in 1..MaxCols} :
        \A i, j \in 1..Len(h) : i # j => h[i] # h[j]}

\* a worksheet without records
NoRecords == EmptyFrame

Datasets ==
    Tables(HeadersA, RowsA) \cup Tables(HeadersB, RowsB) \cup Tables(HeadersC, RowsC)
    \cup Tables(HeadersD, RowsD) \cup Tables(HeadersE, RowsE)
    \cup {BlankTable(h) : h \in HeaderLists} \cup {NoRecords}

\* the worksheets a session of the model edits between
SessionDatasets ==
    {[columns |-> HeadersA, rows |-> <<r>>] : r \in RowsA}

SheetIds == {<<>>, <<"s","1">>}

(* ------------------------------- state -------------------------------- *)

NoneCol == [resolved |-> FALSE, name |-> <<>>]
SomeCol(name) == [resolved |-> TRUE, name |-> name]
\* Python truth of an optional column name
Truthy(col) == col.resolved /\ col.name # <<>>

NoRoles == [date_col |-> NoneCol, amount_col |-> NoneCol, type_col |-> NoneCol,
            bank_col |-> NoneCol, message_col |-> NoneCol, suspicious_col |-> NoneCol]
NoMetrics == [total_debit |-> 0, total_credit |-> 0, txn_count |-> 0, last_update |-> NaT]
NoCache == [present |-> FALSE, value |-> EmptyFrame]

\* the locals of a script run before its first statement
FreshRun ==
    /\ pc = "load"
    /\ df = EmptyFrame
    /\ roles = NoRoles
    /\ work = EmptyFrame
    /\ metrics = NoMetrics
    /\ daily = <<>>
    /\ monthly = <<>>
    /\ weekday = <<>>
    /\ bank = <<>>
    /\ top_merchants = <<>>

Init ==
    /\ SHEET_ID \in SheetIds
    /\ sheet \in Datasets
    /\ cache = NoCache
    /\ age = 0
    /\ rendered = [shown |-> FALSE, table |-> EmptyFrame, hist |-> <<>>]
    /\ FreshRun

InitSession ==
    /\ SHEET_ID = <<"s","1">>
    /\ sheet \in SessionDatasets
    /\ cache = NoCache
    /\ age = 0
    /\ rendered = [shown |-> FALSE, table |-> EmptyFrame, hist |-> <<>>]
    /\ FreshRun

(* --------------------------- loading the sheet ------------------------ *)

\* time to live of a cached worksheet, seconds
CacheTTL == 60

\* st.cache_data(ttl=60): an entry younger than the ttl is returned as it is
CacheHit == cache.present /\ age < CacheTTL

\* load_sheet_as_df: the worksheet's records as a DataFrame, through the cache.
\* An empty sheet id gives an empty frame; the result of either path is cached.
load_sheet_as_df_body == IF SHEET_ID = <<>> THEN EmptyFrame ELSE sheet

LoadSheet ==
    /\ pc = "load"
    /\ df' = IF CacheHit THEN cache.value ELSE load_sheet_as_df_body
    /\ cache' = IF CacheHit THEN cache ELSE [present |-> TRUE, value |-> load_sheet_as_df_body]
    /\ age' = IF CacheHit THEN age ELSE 0
    /\ pc' = IF IsEmpty(df') THEN "stopped" ELSE "resolve"
    /\ UNCHANGED <<SHEET_ID, sheet, roles, work, metrics, daily, monthly, weekday,
                   bank, top_merchants, rendered>>

(* -------------------------- column detection -------------------------- *)

\* col_candidates = {c.lower(): c for c in df.columns}: the keys
CandidateKeys(columns) == {str_lower(columns[i]) : i \in 1..Len(columns)}
\* col_candidates[key]: a later column replaces an earlier one with the same key
Candidate(columns, key) ==
    LET hits == {i \in 1..Len(columns) : str_lower(columns[i]) = key}
    IN columns[CHOOSE i \in hits : \A j \in hits : j <= i]

\* col_candidates.get(key): None for a key that is missing
col_candidates_get(columns, key) ==
    IF key \in CandidateKeys(columns) THEN SomeCol(Candidate(columns, key)) ELSE NoneCol

\* the or-chain as it would be with the synonyms tried last to first
RECURSIVE LastCandidate(_, _)
LastCandidate(columns, synonyms) ==
    IF synonyms = <<>> THEN NoneCol
    ELSE IF Truthy(col_candidates_get(columns, synonyms[Len(synonyms)]))
         THEN col_candidates_get(columns, synonyms[Len(synonyms)])
         ELSE LastCandidate(columns, SubSeq(synonyms, 1, Len(synonyms) - 1))

\* col_candidates.get(k1) or col_candidates.get(k2) or ... or None
RECURSIVE FirstCandidate(_, _)
FirstCandidate(columns, synonyms) ==
    IF synonyms = <<>> THEN NoneCol
    ELSE IF Truthy(col_candidates_get(columns, Head(synonyms)))
         THEN col_candidates_get(columns, Head(synonyms))
         ELSE FirstCandidate(columns, Tail(synonyms))

resolve(columns) ==
    [date_col       |-> FirstCandidate(columns, DateSynonyms),
     amount_col     |-> FirstCandidate(columns, AmountSynonyms),
     type_col       |-> FirstCandidate(columns, TypeSynonyms),
     bank_col       |-> FirstCandidate(columns, BankSynonyms),
     message_col    |-> FirstCandidate(columns, MessageSynonyms),
     suspicious_col |-> FirstCandidate(columns, SuspiciousSynonyms)]

\* lines 152-160: the roles are resolved and the frame is copied
ResolveColumns ==
    /\ pc = "resolve"
    /\ roles' = resolve(df.columns)
    /\ work' = df
    /\ pc' = "amount"
    /\ UNCHANGED <<SHEET_ID, sheet, cache, age, df, metrics, daily, monthly, weekday,
                   bank, top_merchants, rendered>>

\* `col and col in work.columns`
Usable(col, t) == Truthy(col) /\ HasColumn(t, col.name)

(* --------------------------- amount parsing --------------------------- *)

Rows(t) == 1..Len(t.rows)

\* select_dtypes(include=["number"]): the columns whose every cell is a number
numeric_cols(t) ==
    {i \in 1..Len(t.columns) : \A r \in Rows(t) : IsNum(t.rows[r][i])}

\* row.astype(str).str.cat(sep=" ")
RowText(row) == str_cat([i \in 1..Len(row) |-> astype_str(row[i])])

\* lines 163-182: the Amount column
AmountValues(t, amount_col) ==
    IF Usable(amount_col, t)
    THEN [r \in Rows(t) |-> to_numeric(Column(t, amount_col.name)[r])]
    ELSE IF numeric_cols(t) # {}
    THEN LET first == CHOOSE i \in numeric_cols(t) : \A j \in numeric_cols(t) : i <= j
         IN [r \in Rows(t) |-> to_numeric(t.rows[r][first])]
    ELSE [r \in Rows(t) |-> extract_num(RowText(t.rows[r]))]

AmountParsing ==
    /\ pc = "amount"
    /\ work' = SetColumn(work, col_Amount, AmountValues(work, roles.amount_col))
    /\ pc' = "date"
    /\ UNCHANGED <<SHEET_ID, sheet, cache, age, df, roles, metrics, daily, monthly,
                   weekday, bank, top_merchants, rendered>>

(* ---------------------------- date parsing ---------------------------- *)

\* the columns some value of which parses as a timestamp
datetime_like_cols(t) ==
    {i \in 1..Len(t.columns) : \E r \in Rows(t) : ~IsNull(to_datetime(t.rows[r][i]))}

\* lines 185-200: the DateTime column
DateTimeValues(t, date_col) ==
    IF Usable(date_col, t)
    THEN [r \in Rows(t) |-> to_datetime(Column(t, date_col.name)[r])]
    ELSE IF datetime_like_cols(t) # {}
    THEN LET first == CHOOSE i \in datetime_like_cols(t) :
                         \A j \in datetime_like_cols(t) : i <= j
         IN [r \in Rows(t) |-> to_datetime(t.rows[r][first])]
    ELSE [r \in Rows(t) |-> NaT]

\* lines 202-204 as they would be with the records that have no timestamp dropped
derive_dates_dropna(t) ==
    LET kept == [t EXCEPT !.rows = SelectSeq(t.rows,
                     LAMBDA row : ~IsNull(to_datetime(row[ColIndex(t, col_DateTime)])))]
        dt == [r \in Rows(kept) |-> to_datetime(Column(kept, col_DateTime)[r])]
        t1 == SetColumn(kept, col_Date, [r \in Rows(kept) |-> dt_date(dt[r])])
        t2 == SetColumn(t1, col_Month, [r \in Rows(kept) |-> dt_month_str(dt[r])])
    IN SetColumn(t2, col_Weekday, [r \in Rows(kept) |-> dt_day_name(dt[r])])

\* lines 202-204: Date, Month and Weekday from the DateTime column
derive_dates(t) ==
    LET dt == [r \in Rows(t) |-> to_datetime(Column(t, col_DateTime)[r])]
        t1 == SetColumn(t, col_Date, [r \in Rows(t) |-> dt_date(dt[r])])
        t2 == SetColumn(t1, col_Month, [r \in Rows(t) |-> dt_month_str(dt[r])])
    IN SetColumn(t2, col_Weekday, [r \in Rows(t) |-> dt_day_name(dt[r])])

DateParsing ==
    /\ pc = "date"
    /\ work' = derive_dates(SetColumn(work, col_DateTime, DateTimeValues(work, roles.date_col)))
    /\ pc' = "type"
    /\ UNCHANGED <<SHEET_ID, sheet, cache, age, df, roles, metrics, daily, monthly,
                   weekday, bank, top_merchants, rendered>>

(* -------------------------- type normalization ------------------------ *)

\* line 208: astype(str).str.lower().str.strip() of one type cell
normalize_type(c) == Text(str_strip(str_lower(astype_str(c))))

\* lines 211-213: the type from the sign of the amount
type_from_sign(amount) ==
    IF IsNum(amount) /\ amount.n > 0 THEN Text(s_credit)
    ELSE IF IsNum(amount) /\ amount.n < 0 THEN Text(s_debit)
    ELSE Text(s_unknown)

\* line 216: the lambda applied to the lower-cased message
type_from_message(x) ==
    IF Contains(x, s_deb) \/ Contains(x, s_withdraw) \/ Contains(x, s_paid) THEN Text(s_debit)
    ELSE IF Contains(x, s_cred) \/ Contains(x, s_credited) THEN Text(s_credit)
    ELSE Text(s_unknown)

\* Series.combine_first: the caller's value unless it is missing
combine_first(a, b) == [r \in DOMAIN a |-> IF IsNull(a[r]) THEN b[r] ELSE a[r]]

\* lines 207-217 as they would be with the message consulted before the type column
TypeValues_message_first(t, type_col, message_col) ==
    IF Usable(message_col, t)
    THEN [r \in Rows(t) |-> type_from_message(
             str_lower(astype_str(Column(t, message_col.name)[r])))]
    ELSE IF Usable(type_col, t)
    THEN [r \in Rows(t) |-> normalize_type(Column(t, type_col.name)[r])]
    ELSE [r \in Rows(t) |-> type_from_sign(Column(t, col_Amount)[r])]

\* lines 207-217: the Type column
TypeValues(t, type_col, message_col) ==
    IF Usable(type_col, t)
    THEN [r \in Rows(t) |-> normalize_type(Column(t, type_col.name)[r])]
    ELSE LET bySign == [r \in Rows(t) |-> type_from_sign(Column(t, col_Amount)[r])]
             t1 == SetColumn(t, col_Type, bySign)
         IN IF Usable(message_col, t1)
            THEN combine_first(
                    [r \in Rows(t) |-> type_from_message(
                        str_lower(astype_str(Column(t1, message_col.name)[r])))],
                    bySign)
            ELSE bySign

\* lines 207-220
TypeNormalization ==
    /\ pc = "type"
    /\ LET t1 == SetColumn(work, col_Type, TypeValues(work, roles.type_col, roles.message_col))
       IN work' = SetColumn(t1, col_Amount,
                            [r \in Rows(t1) |-> to_numeric(Column(t1, col_Amount)[r])])
    /\ pc' = "metrics"
    /\ UNCHANGED <<SHEET_ID, sheet, cache, age, df, roles, metrics, daily, monthly,
                   weekday, bank, top_merchants, rendered>>

(* ------------------------------ aggregates ---------------------------- *)

RECURSIVE SumUpTo(_, _, _)
SumUpTo(amounts, keep, n) ==
    IF n = 0 THEN 0
    ELSE SumUpTo(amounts, keep, n - 1)
         + (IF n \in keep /\ IsNum(amounts[n]) THEN amounts[n].n ELSE 0)

\* Series.sum() over the rows kept: missing amounts are skipped, and the sum
\* of no amounts is 0
series_sum(amounts, keep) == SumUpTo(amounts, keep, Len(amounts))

\* Series.mean() over the rows kept, as the sum and the number of amounts
\* that are not missing; count 0 is the mean NaN
series_mean(amounts, keep) ==
    [sum |-> series_sum(amounts, keep),
     count |-> Cardinality({r \in keep : IsNum(amounts[r])})]

\* work["Type"] == kind
RowsOfType(t, kind) == {r \in Rows(t) : Column(t, col_Type)[r] = Text(kind)}

\* Series.max() of the timestamps, NaT when none is present
max_datetime(dts) ==
    LET have == {r \in DOMAIN dts : ~IsNull(dts[r])}
    IN IF have = {} THEN NaT
       ELSE dts[CHOOSE r \in have : \A q \in have : dts[q].n <= dts[r].n]

\* lines 226-229
SummaryMetrics ==
    /\ pc = "metrics"
    /\ metrics' = [total_debit  |-> series_sum(Column(work, col_Amount), RowsOfType(work, s_debit)),
                   total_credit |-> series_sum(Column(work, col_Amount), RowsOfType(work, s_credit)),
                   txn_count    |-> Len(work.rows),
                   last_update  |-> max_datetime(Column(work, col_DateTime))]
    /\ pc' = "daily"
    /\ UNCHANGED <<SHEET_ID, sheet, cache, age, df, roles, work, daily, monthly,
                   weekday, bank, top_merchants, rendered>>

\* groupby(key)["Amount"].sum() over the rows kept: one group for every key
\* value that is not missing, the rows with a missing key left out
groupby_sum(t, keep, key) ==
    LET keys == {key[r] : r \in {q \in keep : ~IsNull(key[q])}}
    IN [g \in keys |-> series_sum(Column(t, col_Amount), {r \in keep : key[r] = g})]

\* line 241
daily_debits(t) == groupby_sum(t, RowsOfType(t, s_debit), Column(t, col_Date))

DailyTrend ==
    /\ pc = "daily"
    /\ daily' = daily_debits(work)
    /\ pc' = "monthly"
    /\ UNCHANGED <<SHEET_ID, sheet, cache, age, df, roles, work, metrics, monthly,
                   weekday, bank, top_merchants, rendered>>

\* groupby([k1, k2])["Amount"].sum(): rows with either key missing are left out
groupby2_sum(t, k1, k2) ==
    LET keep == {r \in Rows(t) : ~IsNull(k1[r]) /\ ~IsNull(k2[r])}
        keys == {<<k1[r], k2[r]>> : r \in keep}
    IN [g \in keys |-> series_sum(Column(t, col_Amount),
                                  {r \in keep : <<k1[r], k2[r]>> = g})]

\* line 247
monthly_totals(t) == groupby2_sum(t, Column(t, col_Month), Column(t, col_Type))

MonthlyTotals ==
    /\ pc = "monthly"
    /\ monthly' = monthly_totals(work)
    /\ pc' = "merchant"
    /\ UNCHANGED <<SHEET_ID, sheet, cache, age, df, roles, work, metrics, daily,
                   weekday, bank, top_merchants, rendered>>

\* lines 262-263: the merchant of one message, "" when the pattern finds none
merchant_of(c) ==
    LET m == str_extract_merchant(astype_str(c))
    IN Text(str_strip(IF IsNull(m) THEN <<>> ELSE m.s))

\* lines 260-264; the ten largest totals are all of them at the model's sizes
MerchantExtraction ==
    /\ pc = "merchant"
    /\ IF Usable(roles.message_col, work)
       THEN LET t1 == SetColumn(work, col_merchant,
                        [r \in Rows(work) |-> merchant_of(Column(work, roles.message_col.name)[r])])
                m == Column(t1, col_merchant)
            IN /\ work' = t1
               /\ top_merchants' = groupby_sum(t1, {r \in Rows(t1) : m[r] # Text(<<>>)}, m)
       ELSE UNCHANGED <<work, top_merchants>>
    /\ pc' = "weekday"
    /\ UNCHANGED <<SHEET_ID, sheet, cache, age, df, roles, metrics, daily, monthly,
                   weekday, bank, rendered>>

\* Monday .. Sunday, the order of the reindex
WeekOrder == <<2, 3, 4, 5, 6, 7, 1>>

\* lines 270-272: the mean debit of each weekday, Monday first
weekday_means(t) ==
    LET debit == RowsOfType(t, s_debit)
        wd == Column(t, col_Weekday)
    IN [i \in 1..7 |->
          [Weekday |-> DayNames[WeekOrder[i]],
           Amount  |-> series_mean(Column(t, col_Amount),
                                   {r \in debit : wd[r] = Text(DayNames[WeekOrder[i]])})]]

WeekdayAverage ==
    /\ pc = "weekday"
    /\ weekday' = weekday_means(work)
    /\ pc' = "bank"
    /\ UNCHANGED <<SHEET_ID, sheet, cache, age, df, roles, work, metrics, daily, monthly,
                   bank, top_merchants, rendered>>

\* lines 278-279
BankWise ==
    /\ pc = "bank"
    /\ bank' = IF Usable(roles.bank_col, work)
               THEN groupby2_sum(work, Column(work, roles.bank_col.name), Column(work, col_Type))
               ELSE bank
    /\ pc' = "table"
    /\ UNCHANGED <<SHEET_ID, sheet, cache, age, df, roles, work, metrics, daily, monthly,
                   weekday, top_merchants, rendered>>

\* rows of the cleaned table shown on the page
PreviewRows == 200

\* line 285: the debit amounts that are not missing
debit_hist(t) ==
    LET a == Column(t, col_Amount)
    IN SelectSeq([r \in Rows(t) |-> IF r \in RowsOfType(t, s_debit) THEN a[r] ELSE NaN],
                 LAMBDA c : IsNum(c))

\* lines 285-296: the histogram and the cleaned table
RenderTable ==
    /\ pc = "table"
    /\ rendered' = [shown |-> TRUE,
                    table |-> [work EXCEPT !.rows = SubSeq(work.rows, 1, Min(Len(work.rows), PreviewRows))],
                    hist  |-> debit_hist(work)]
    /\ pc' = "done"
    /\ UNCHANGED <<SHEET_ID, sheet, cache, age, df, roles, work, metrics, daily, monthly,
                   weekday, bank, top_merchants>>

\* one script run, top to bottom
Run ==
    \/ LoadSheet
    \/ ResolveColumns
    \/ AmountParsing
    \/ DateParsing
    \/ TypeNormalization
    \/ SummaryMetrics
    \/ DailyTrend
    \/ MonthlyTotals
    \/ MerchantExtraction
    \/ WeekdayAverage
    \/ BankWise
    \/ RenderTable

(* ------------------------------ the session --------------------------- *)

Between == pc \in {"done", "stopped"}

\* someone edits the spreadsheet between two runs
EditSheet ==
    /\ Between
    /\ sheet' \in SessionDatasets \ {sheet}
    /\ UNCHANGED <<SHEET_ID, cache, age, pc, df, roles, work, metrics, daily, monthly,
                   weekday, bank, top_merchants, rendered>>

\* time passes between two runs
Tick ==
    /\ Between
    /\ age < MaxAge
    /\ age' = age + TickStep
    /\ UNCHANGED <<SHEET_ID, sheet, cache, pc, df, roles, work, metrics, daily, monthly,
                   weekday, bank, top_merchants, rendered>>

\* lines 18, 122-123: "Refresh now" (or a page reload) runs the script again;
\* nothing clears the cache
Refresh ==
    /\ Between
    /\ pc' = "load"
    /\ df' = EmptyFrame
    /\ roles' = NoRoles
    /\ work' = EmptyFrame
    /\ metrics' = NoMetrics
    /\ daily' = <<>>
    /\ monthly' = <<>>
    /\ weekday' = <<>>
    /\ bank' = <<>>
    /\ top_merchants' = <<>>
    /\ UNCHANGED <<SHEET_ID, sheet, cache, age, rendered>>

Next == Run

Spec == Init /\ [][Next]_vars

NextSession == Run \/ EditSheet \/ Tick \/ Refresh

SpecSession == InitSession /\ [][NextSession]_vars

(* ------------------------------- claims ------------------------------- *)

\* the statements of a run after the named step has finished
AfterResolve == {"amount", "date", "type", "metrics", "daily", "monthly", "merchant",
                 "weekday", "bank", "table", "done"}
AfterDate == AfterResolve \ {"amount", "date"}
AfterType == AfterDate \ {"type"}
AfterDaily == AfterType \ {"metrics", "daily"}
AfterMonthly == AfterDaily \ {"monthly"}

Kinds == {Text(s_debit), Text(s_credit), Text(s_unknown)}
Kind(r) == Column(work, col_Type)[r]
Amount(r) == Column(work, col_Amount)[r]
\* the raw cell of record r under the column a role resolved to
Raw(col, r) == Column(df, col.name)[r]

\* C1 as claimed: after type normalization the Type of every record of the
\* cleaned table is debit, credit or unknown.
C1_KindIsOneOfThree ==
    pc \in AfterType => \A r \in Rows(work) : Kind(r) \in Kinds

\* what the claim's rule 2 makes of a type value that is neither "debit" nor "credit"
C2_Expected(v) ==
    IF Contains(v, s_deb) THEN Text(s_debit)
    ELSE IF Contains(v, s_cred) THEN Text(s_credit)
    ELSE Text(s_unknown)

\* C2 as claimed: with the type role resolved, a type value that is not
\* exactly "debit" or "credit" after lower-casing and trimming gets kind debit
\* when it contains "deb" and kind credit when it contains "cred".
C2_TypeSubstringRules ==
    (pc \in AfterType /\ Usable(roles.type_col, df)) =>
        \A r \in Rows(work) :
            LET v == str_strip(str_lower(astype_str(Raw(roles.type_col, r))))
            IN (v \notin {s_debit, s_credit} /\ (Contains(v, s_deb) \/ Contains(v, s_cred)))
                  => Kind(r) = C2_Expected(v)

C3_HasKeyword(x) ==
    \E kw \in {s_deb, s_withdraw, s_paid, s_cred, s_credited} : Contains(x, kw)

\* C3 as claimed: with the type role unresolved and the message role
\* resolved, a message without any keyword gets its kind from the sign of the
\* amount (negative debit, positive credit, zero or absent unknown), and a
\* message with a keyword gets the keyword's kind.
C3_SignFallback ==
    (pc \in AfterType /\ ~Usable(roles.type_col, df) /\ Usable(roles.message_col, df)) =>
        \A r \in Rows(work) :
            LET x == str_lower(astype_str(Raw(roles.message_col, r)))
            IN IF C3_HasKeyword(x)
               THEN Kind(r) = type_from_message(x)
               ELSE Kind(r) = (IF IsNum(Amount(r)) /\ Amount(r).n < 0 THEN Text(s_debit)
                               ELSE IF IsNum(Amount(r)) /\ Amount(r).n > 0 THEN Text(s_credit)
                               ELSE Text(s_unknown))

\* spellings of "Debit" in several letter cases and with surrounding whitespace
DebitSpellings ==
    { <<"D","e","b","i","t">>, <<"d","e","b","i","t">>, <<"D","E","B","I","T">>,
      <<" ","D","E","B","I","T"," ">>, <<"d","e","b","i","t","\t">>, <<" ","D","e","b","i","t">> }

\* C4: with the type role resolved, a record whose type cell is a spelling of
\* "Debit" has kind debit, whatever its message and the sign of its amount.
C4_ExplicitDebitWins ==
    (pc \in AfterType /\ Usable(roles.type_col, df)) =>
        \A r \in Rows(work) :
            (Raw(roles.type_col, r).k = "text" /\ Raw(roles.type_col, r).s \in DebitSpellings)
                => Kind(r) = Text(s_debit)

\* C4's case: a record typed "Debit" whose message says "credited" and whose
\* amount is positive has been classified, and a padded upper-case spelling too.
C4_Witness ==
    /\ pc \in AfterType
    /\ Usable(roles.type_col, df)
    /\ Usable(roles.message_col, df)
    /\ \E r \in Rows(work) :
          /\ Raw(roles.type_col, r) = Text(<<"D","e","b","i","t">>)
          /\ Contains(str_lower(astype_str(Raw(roles.message_col, r))), s_credited)
          /\ IsNum(Amount(r)) /\ Amount(r).n > 0
          /\ Kind(r) = Text(s_debit)

RECURSIVE C5_AbsSumUpTo(_, _, _)
C5_AbsSumUpTo(amounts, keep, n) ==
    IF n = 0 THEN 0
    ELSE C5_AbsSumUpTo(amounts, keep, n - 1)
         + (IF n \in keep /\ IsNum(amounts[n])
            THEN (IF amounts[n].n < 0 THEN 0 - amounts[n].n ELSE amounts[n].n)
            ELSE 0)

\* C5 as claimed: the daily debit total of a date is the sum of the
\* magnitudes of the amounts of its debit records (50 for one debit of -50),
\* never a negative value.
C5_DailyDebitIsMagnitude ==
    pc \in AfterDaily =>
        \A d \in DOMAIN daily :
            daily[d] = C5_AbsSumUpTo(Column(work, col_Amount),
                                     {r \in Rows(work) : Kind(r) = Text(s_debit)
                                                          /\ Column(work, col_Date)[r] = d},
                                     Len(work.rows))

DerivedColumns == {col_Amount, col_DateTime, col_Date, col_Month, col_Weekday,
                   col_Type, col_merchant}

\* C6: at every statement after the frame is copied, the cleaned table has as
\* many rows as the loaded frame, and row r of it is record r of the input:
\* every raw cell that no derived column overwrites is the input's, and the
\* amount of row r is the parse of record r's amount cell.
C6_OneRowPerRecord ==
    pc \in AfterResolve =>
        /\ Len(work.rows) = Len(df.rows)
        /\ \A r \in Rows(work) :
              /\ Len(work.rows[r]) = Len(work.columns)
              /\ \A i \in 1..Len(df.columns) :
                    df.columns[i] \notin DerivedColumns
                        => Column(work, df.columns[i])[r] = df.rows[r][i]
              /\ (pc # "amount" /\ Usable(roles.amount_col, df))
                    => Amount(r) = to_numeric(Raw(roles.amount_col, r))

\* C6's case: a run over two records has finished, one amount and one
\* timestamp of which could not be parsed.
C6_Witness ==
    /\ pc = "done"
    /\ Len(df.rows) >= 2
    /\ Usable(roles.amount_col, df)
    /\ \E r \in Rows(work) : IsNull(Amount(r))
    /\ \E r \in Rows(work) : IsNull(Column(work, col_DateTime)[r])
    /\ \E r \in Rows(work) : ~IsNull(Column(work, col_DateTime)[r])

\* the debit records of the cleaned table whose amount is present
C7_Counted == {r \in Rows(work) : Kind(r) = Text(s_debit) /\ IsNum(Amount(r))}

\* C7 as claimed: a debit record with an absent amount adds 0 to the debit
\* total and takes no part in the daily and weekday aggregates: every daily
\* sum and weekday mean is that of the debit records with an amount, and a
\* date is reported only when one of its debit records has an amount.
C7_AbsentAmountExcluded ==
    pc = "done" =>
        /\ metrics.total_debit = series_sum(Column(work, col_Amount), C7_Counted)
        /\ \A d \in DOMAIN daily :
              /\ daily[d] = series_sum(Column(work, col_Amount),
                                       {r \in C7_Counted : Column(work, col_Date)[r] = d})
              /\ \E r \in C7_Counted : Column(work, col_Date)[r] = d
        /\ \A i \in 1..7 :
              weekday[i].Amount.count =
                  Cardinality({r \in C7_Counted :
                                  Column(work, col_Weekday)[r] = Text(weekday[i].Weekday)})

\* C8 as claimed: the Date, Month and Weekday of a record are all present
\* when its timestamp is and all absent when it is not, and no key of the
\* monthly totals comes from a record without a timestamp.
C8_DerivedAllOrNone ==
    /\ pc \in AfterDate =>
          \A r \in Rows(work) :
              LET present == ~IsNull(Column(work, col_DateTime)[r])
              IN /\ ~IsNull(Column(work, col_Date)[r]) = present
                 /\ ~IsNull(Column(work, col_Weekday)[r]) = present
                 /\ (Column(work, col_Month)[r] \notin {NaN, NaT, Text(<<"N","a","T">>)}) = present
    /\ pc \in AfterMonthly =>
          \A g \in DOMAIN monthly :
              \E r \in Rows(work) : /\ ~IsNull(Column(work, col_DateTime)[r])
                                    /\ Column(work, col_Month)[r] = g[1]

\* C9 as claimed: every run loads the records the sheet holds at that moment.
C9_RefreshRepulls == [][pc = "load" => df' = sheet]_vars

\* a role resolved by the synonyms, as C10 states it
C10_RoleSound(col, synonyms) ==
    LET matches == {k \in 1..Len(synonyms) :
                      \E i \in 1..Len(df.columns) : str_lower(df.columns[i]) = synonyms[k]}
    IN IF matches = {}
       THEN col = NoneCol
       ELSE /\ col.resolved
            /\ \E i \in 1..Len(df.columns) : df.columns[i] = col.name
            /\ str_lower(col.name) = synonyms[CHOOSE k \in matches : \A j \in matches : k <= j]

\* C10: column resolution always completes, and each of the roles date,
\* amount, type, bank and message is unresolved when no column matches a
\* synonym and otherwise names an input column that equals, letter case
\* aside, the first synonym of the role that some column matches.
C10_ResolverSound ==
    /\ pc = "resolve" => ENABLED ResolveColumns
    /\ pc \in AfterResolve =>
          /\ C10_RoleSound(roles.date_col, DateSynonyms)
          /\ C10_RoleSound(roles.amount_col, AmountSynonyms)
          /\ C10_RoleSound(roles.type_col, TypeSynonyms)
          /\ C10_RoleSound(roles.bank_col, BankSynonyms)
          /\ C10_RoleSound(roles.message_col, MessageSynonyms)

\* C10's case: the headers hold a spelling of "date" before a spelling of
\* "datetime", and the date role went to the latter.
C10_Witness ==
    /\ pc \in AfterResolve
    /\ \E i, j \in 1..Len(df.columns) :
          /\ i < j
          /\ str_lower(df.columns[i]) = kw_date
          /\ str_lower(df.columns[j]) = kw_datetime
          /\ df.columns[j] # kw_datetime
          /\ roles.date_col = SomeCol(df.columns[j])

====
